---- MODULE Spec2Model ----
(***************************************************************************)
(* A model of the NBA data lake programs:                                  *)
(*   nba_visualization.py   - submit an Athena query, poll until it ends,  *)
(*                            read the result artifact (Spec)              *)
(*   setup_nba_data_lake.py - the setup pipeline (SetupSpec) and its pure  *)
(*                            serializer format_as_jsonl (SerializeSpec)   *)
(* Text is modelled as TLA+ strings where it is only concatenated and as   *)
(* sequences of one-character strings where its characters matter.         *)
(***************************************************************************)
EXTENDS Integers, Sequences, FiniteSets, TLC

VARIABLES
    pc,                 \* position of the running program in its main()
    exc,                \* the exception that left main(), or NoException
    log,                \* what the program printed, one tag per print()
    elapsed,            \* seconds spent in time.sleep()
    query_execution_id, \* main's handle, NoHandle before query_athena returns
    engine,             \* the status the query engine holds for the handle
    observed,           \* the answers get_query_execution gave, in order, each
                        \* with the handle asked about and the time of asking
    lookups,            \* calls of athena_client.get_query_execution
    submits,            \* calls of athena_client.start_query_execution
    result_s3_path,     \* what fetch_query_results returned, NoPath before
    reads,              \* the paths visualize_data handed to pd.read_csv
    nba_data,           \* setup main's nba_data
    jsonl_data,         \* setup main's jsonl_data
    calls,              \* setup: the provider calls and sleeps made, in order
    rejected,           \* setup: the stages whose provider call raised
    store               \* setup: the objects put into the bucket, key -> body

vars == <<pc, exc, log, elapsed, query_execution_id, engine, observed, lookups,
          submits, result_s3_path, reads, nba_data, jsonl_data, calls,
          rejected, store>>

queryVars == <<query_execution_id, engine, observed, lookups, submits,
               result_s3_path, reads>>
setupVars == <<nba_data, jsonl_data, calls, rejected, store>>

\* ------------------------------------------------------------------ bounds

\* get_query_execution is called at most MaxPolls times in a modelled run.
MaxPolls == 4
\* A caller's time budget in seconds, for the statements about a timeout.
CallerBudget == 3

\* ------------------------------------------------------- program constants

PollInterval == 2
BucketWait == 5

query_output_location == "s3://players-nba/raw-data/"

\* An exception is its type and its arguments, as Python's Exception(*args).
NoException == [type |-> "None", args |-> <<>>]
Raised(type, args) == [type |-> type, args |-> args]
NoHandle == "no-handle"
NoPath == "no-path"
NoStatus == "no-query"

\* The handles start_query_execution may return.
Handles == {"q1", "q2"}

\* ----------------------------------------------------- the query engine

NonTerminalStatuses == {"SUBMITTED", "RUNNING"}
TerminalStatuses == {"SUCCEEDED", "FAILED", "CANCELLED"}
QueryStatus == NonTerminalStatuses \cup TerminalStatuses

\* The engine's transitions of a handle's status; a cancel from outside may
\* come at any time before the query has ended.
EngineSuccessors(s) ==
    CASE s = "SUBMITTED" -> {"RUNNING", "CANCELLED"}
      [] s = "RUNNING"   -> {"SUCCEEDED", "FAILED", "CANCELLED"}
      [] OTHER           -> {}

\* The engine moves the submitted query on; the program only observes it.
EngineStep ==
    /\ engine \in QueryStatus
    /\ \E s \in EngineSuccessors(engine) : engine' = s
    /\ UNCHANGED <<pc, exc, log, elapsed, query_execution_id, observed, lookups,
                   submits, result_s3_path, reads>>
    /\ UNCHANGED setupVars

\* ------------------------------------------------ nba_visualization.py

Last(s) == s[Len(s)]
Range(s) == {s[i] : i \in 1..Len(s)}

\* A variant of QueryAthena that submits again after a failed submission.
QueryAthenaResubmitting ==
    /\ pc = "start"
    /\ submits' = submits + 1
    /\ \/ \E h \in Handles :
            /\ query_execution_id' = h
            /\ engine' = "SUBMITTED"
            /\ log' = log \o <<"Running Athena query...", "Fetching query results...">>
            /\ pc' = "poll"
            /\ exc' = exc
       \/ /\ log' = Append(log, "Running Athena query...")
          /\ pc' = "start"
          /\ UNCHANGED <<query_execution_id, engine, exc>>
    /\ UNCHANGED <<elapsed, observed, lookups, result_s3_path, reads>>
    /\ UNCHANGED setupVars

\* main, lines 70-74: query_athena(database_name, sql_query, query_output_location).
\* start_query_execution either returns a handle or raises; main catches nothing.
QueryAthena ==
    /\ pc = "start"
    /\ submits' = submits + 1
    /\ \/ \E h \in Handles :
            /\ query_execution_id' = h
            /\ engine' = "SUBMITTED"
            /\ log' = log \o <<"Running Athena query...", "Fetching query results...">>
            /\ pc' = "poll"
            /\ exc' = exc
       \/ /\ log' = Append(log, "Running Athena query...")
          /\ exc' = Raised("ClientError", <<"start_query_execution">>)
          /\ pc' = "raised"
          /\ UNCHANGED <<query_execution_id, engine>>
    /\ UNCHANGED <<elapsed, observed, lookups, result_s3_path, reads>>
    /\ UNCHANGED setupVars

\* A variant of BreakStates that leaves the loop on FAILED only.
BreakStatesWithoutSucceeded == {"FAILED"}

\* fetch_query_results, line 34: the states on which the loop breaks.
BreakStates == {"SUCCEEDED", "FAILED"}

\* A variant of ReturnsArtifact that returns the path whatever the state.
ReturnsArtifactAlways(state) == TRUE

\* fetch_query_results, line 38: the test deciding between return and raise.
ReturnsArtifact(state) == state = "SUCCEEDED"

\* fetch_query_results, line 41: f"{output_location}{query_execution_id}.csv".
ResultPath(output_location, id) == output_location \o id \o ".csv"

\* One iteration of fetch_query_results' loop up to its sleep (lines 32-35),
\* and, when the loop breaks, the rest of the function (lines 38-45).
FetchPoll ==
    /\ pc = "poll"
    /\ lookups < MaxPolls
    /\ lookups' = lookups + 1
    /\ observed' = Append(observed, [id |-> query_execution_id, state |-> engine,
                                     at |-> elapsed])
    /\ IF engine \in BreakStates
         THEN IF ReturnsArtifact(engine)
                THEN /\ result_s3_path' = ResultPath(query_output_location, query_execution_id)
                     /\ log' = log \o <<"Query succeeded!", "Query results saved to">>
                     /\ pc' = "visualize"
                     /\ exc' = exc
                ELSE /\ exc' = Raised("Exception", <<"Query failed!">>)
                     /\ pc' = "raised"
                     /\ UNCHANGED <<result_s3_path, log>>
         ELSE /\ pc' = "sleep"
              /\ UNCHANGED <<result_s3_path, log, exc>>
    /\ UNCHANGED <<elapsed, query_execution_id, engine, submits, reads>>
    /\ UNCHANGED setupVars

\* Line 32 when get_query_execution itself raises: nothing in the program
\* catches it, so it leaves fetch_query_results and main.
FetchPollRaises ==
    /\ pc = "poll"
    /\ lookups < MaxPolls
    /\ lookups' = lookups + 1
    /\ exc' = Raised("ClientError", <<"get_query_execution">>)
    /\ pc' = "raised"
    /\ UNCHANGED <<log, elapsed, query_execution_id, engine, observed, submits,
                   result_s3_path, reads>>
    /\ UNCHANGED setupVars

\* A variant of FetchSleep that gives up once the caller's budget is spent.
FetchSleepTimingOut ==
    /\ pc = "sleep"
    /\ elapsed' = elapsed + PollInterval
    /\ IF elapsed' > CallerBudget
         THEN pc' = "raised" /\ exc' = Raised("QueryTimeoutError", <<query_execution_id>>)
         ELSE pc' = "poll" /\ exc' = exc
    /\ UNCHANGED <<log, query_execution_id, engine, observed, lookups,
                   submits, result_s3_path, reads>>
    /\ UNCHANGED setupVars

\* fetch_query_results, line 36: time.sleep(2), then the next iteration.
FetchSleep ==
    /\ pc = "sleep"
    /\ elapsed' = elapsed + PollInterval
    /\ pc' = "poll"
    /\ UNCHANGED <<exc, log, query_execution_id, engine, observed, lookups,
                   submits, result_s3_path, reads>>
    /\ UNCHANGED setupVars

\* main, lines 78-79: visualize_data(result_s3_path); pd.read_csv reads the
\* artifact and either yields the rows to plot or raises.
VisualizeData ==
    /\ pc = "visualize"
    /\ log' = Append(log, "Visualizing data...")
    /\ reads' = Append(reads, result_s3_path)
    /\ \/ /\ pc' = "done"
          /\ exc' = exc
       \/ /\ pc' = "raised"
          /\ exc' = Raised("ReadError", <<"read_csv">>)
    /\ UNCHANGED <<elapsed, query_execution_id, engine, observed, lookups,
                   submits, result_s3_path>>
    /\ UNCHANGED setupVars

SetupIdle ==
    /\ nba_data = <<>>
    /\ jsonl_data = <<>>
    /\ calls = <<>>
    /\ rejected = {}
    /\ store = <<>>

QueryIdle ==
    /\ query_execution_id = NoHandle
    /\ engine = NoStatus
    /\ observed = <<>>
    /\ lookups = 0
    /\ submits = 0
    /\ result_s3_path = NoPath
    /\ reads = <<>>

Init ==
    /\ pc = "start"
    /\ exc = NoException
    /\ log = <<>>
    /\ elapsed = 0
    /\ QueryIdle
    /\ SetupIdle

Next ==
    \/ QueryAthena
    \/ FetchPoll
    \/ FetchPollRaises
    \/ FetchSleep
    \/ VisualizeData
    \/ EngineStep

Spec == Init /\ [][Next]_vars

\* ---------------------------------------------- setup_nba_data_lake.py

\* The feed's records, as the dicts response.json() yields: a number and a
\* text whose characters may need escaping.
PlayerIDs == {7, 10}
Teams == {<<"A">>, <<"A", "\n">>, <<"\"">>, <<"\\", "n">>}
Records == [PlayerID : PlayerIDs, Team : Teams]

\* The feed returns at most MaxRecords records.
MaxRecords == 2
RecordSeqs == UNION {[1..n -> Records] : n \in 0..MaxRecords}

Digit(d) == CASE d = 0 -> "0" [] d = 1 -> "1" [] d = 2 -> "2" [] d = 3 -> "3"
              [] d = 4 -> "4" [] d = 5 -> "5" [] d = 6 -> "6" [] d = 7 -> "7"
              [] d = 8 -> "8" [] d = 9 -> "9"

\* json.dumps of a non-negative int: its decimal digits.
RECURSIVE JsonInt(_)
JsonInt(n) == IF n < 10 THEN <<Digit(n)>> ELSE Append(JsonInt(n \div 10), Digit(n % 10))

\* json.dumps of one character inside a string.
JsonEscape(c) ==
    CASE c = "\"" -> <<"\\", "\"">>
      [] c = "\\" -> <<"\\", "\\">>
      [] c = "\n" -> <<"\\", "n">>
      [] OTHER    -> <<c>>

RECURSIVE JsonEscapeAll(_)
JsonEscapeAll(str) ==
    IF str = <<>> THEN <<>> ELSE JsonEscape(Head(str)) \o JsonEscapeAll(Tail(str))

\* json.dumps of a str: quoted and escaped.
JsonString(str) == <<"\"">> \o JsonEscapeAll(str) \o <<"\"">>

\* json.dumps(record) with the default separators ", " and ": ".
json_dumps(record) ==
    <<"{">> \o JsonString(<<"P", "l", "a", "y", "e", "r", "I", "D">>) \o <<":", " ">>
            \o JsonInt(record.PlayerID) \o <<",", " ">>
            \o JsonString(<<"T", "e", "a", "m">>) \o <<":", " ">>
            \o JsonString(record.Team) \o <<"}">>

\* sep.join(parts)
RECURSIVE Join(_, _)
Join(sep, parts) ==
    IF parts = <<>> THEN <<>>
    ELSE IF Len(parts) = 1 THEN parts[1]
    ELSE parts[1] \o sep \o Join(sep, Tail(parts))

RECURSIVE Concat(_)
Concat(parts) == IF parts = <<>> THEN <<>> ELSE Head(parts) \o Concat(Tail(parts))

\* A variant of format_as_jsonl that ends every record with a newline.
format_as_jsonl_trailing(data) ==
    Concat([i \in 1..Len(data) |-> json_dumps(data[i]) \o <<"\n">>])

\* format_as_jsonl, line 67: "\n".join(json.dumps(record) for record in data).
format_as_jsonl(data) ==
    Join(<<"\n">>, [i \in 1..Len(data) |-> json_dumps(data[i])])

\* A stage's provider call inside try/except: the call is made; it returns and
\* the success line is printed, or it raises and the error line is printed.
\* Either way the stage returns None to main.
CatchAndPrint(stage, call, okLine, errLine) ==
    /\ calls' = Append(calls, call)
    /\ \/ /\ log' = Append(log, okLine)
          /\ rejected' = rejected
       \/ /\ log' = Append(log, errLine)
          /\ rejected' = rejected \cup {stage}

\* main, lines 121-122: initialize_s3_bucket() (REGION is not us-east-1).
InitializeS3Bucket ==
    /\ pc = "initialize_s3_bucket"
    /\ calls' = Append(calls, "s3.create_bucket")
    /\ \/ /\ log' = log \o <<"Starting NBA data lake setup...", "S3 bucket created successfully.">>
          /\ rejected' = rejected
       \/ /\ log' = log \o <<"Starting NBA data lake setup...", "Failed to create S3 bucket">>
          /\ rejected' = rejected \cup {"initialize_s3_bucket"}
    /\ pc' = "sleep"
    /\ UNCHANGED <<exc, elapsed, nba_data, jsonl_data, store>>
    /\ UNCHANGED queryVars

\* main, line 123: time.sleep(5).
BucketSleep ==
    /\ pc = "sleep"
    /\ calls' = Append(calls, "time.sleep")
    /\ elapsed' = elapsed + BucketWait
    /\ pc' = "setup_glue_database"
    /\ UNCHANGED <<exc, log, nba_data, jsonl_data, rejected, store>>
    /\ UNCHANGED queryVars

\* A variant of SetupGlueDatabase that lets the rejection leave main.
SetupGlueDatabaseRaising ==
    /\ pc = "setup_glue_database"
    /\ calls' = Append(calls, "glue.create_database")
    /\ \/ /\ log' = Append(log, "Glue database created successfully.")
          /\ rejected' = rejected
          /\ pc' = "retrieve_nba_data"
          /\ exc' = exc
       \/ /\ log' = log
          /\ rejected' = rejected \cup {"setup_glue_database"}
          /\ pc' = "raised"
          /\ exc' = Raised("CatalogError", <<"setup_glue_database">>)
    /\ UNCHANGED <<elapsed, nba_data, jsonl_data, store>>
    /\ UNCHANGED queryVars

\* main, line 124: setup_glue_database().
SetupGlueDatabase ==
    /\ pc = "setup_glue_database"
    /\ CatchAndPrint("setup_glue_database", "glue.create_database",
                     "Glue database created successfully.",
                     "Error creating Glue database")
    /\ pc' = "retrieve_nba_data"
    /\ UNCHANGED <<exc, elapsed, nba_data, jsonl_data, store>>
    /\ UNCHANGED queryVars

\* What the feed does with the GET: no response at all, or a response with a
\* status and a body that response.json() can parse or not.
FeedResponses ==
    {[status |-> st, parses |-> TRUE, body |-> <<>>] : st \in {"unreachable", "401"}}
        \cup {[status |-> "200", parses |-> FALSE, body |-> <<>>]}
        \cup {[status |-> "200", parses |-> TRUE, body |-> d] : d \in RecordSeqs}

\* requests.get raises when the feed is unreachable, raise_for_status when
\* the response is not a success, response.json() when the body is no JSON.
FeedCallRaises(r) == r.status # "200" \/ ~r.parses

\* A variant of RetrieveNbaData that lets the feed's failure leave main.
RetrieveNbaDataRaising ==
    /\ pc = "retrieve_nba_data"
    /\ calls' = Append(calls, "requests.get")
    /\ \E r \in FeedResponses :
         IF FeedCallRaises(r)
           THEN /\ log' = log
                /\ rejected' = rejected \cup {"retrieve_nba_data"}
                /\ nba_data' = nba_data
                /\ pc' = "raised"
                /\ exc' = Raised("FetchError", <<r.status>>)
           ELSE /\ log' = Append(log, "Successfully retrieved NBA data.")
                /\ rejected' = rejected
                /\ nba_data' = r.body
                /\ pc' = IF r.body # <<>> THEN "format_as_jsonl" ELSE "define_glue_table"
                /\ exc' = exc
    /\ UNCHANGED <<elapsed, jsonl_data, store>>
    /\ UNCHANGED queryVars

\* main, lines 125-126: nba_data = retrieve_nba_data(); if nba_data: ...
RetrieveNbaData ==
    /\ pc = "retrieve_nba_data"
    /\ calls' = Append(calls, "requests.get")
    /\ \E r \in FeedResponses :
         IF FeedCallRaises(r)
           THEN /\ log' = Append(log, "Error fetching NBA data")
                /\ rejected' = rejected \cup {"retrieve_nba_data"}
                /\ nba_data' = <<>>
           ELSE /\ log' = Append(log, "Successfully retrieved NBA data.")
                /\ rejected' = rejected
                /\ nba_data' = r.body
    /\ pc' = IF nba_data' # <<>> THEN "format_as_jsonl" ELSE "define_glue_table"
    /\ UNCHANGED <<exc, elapsed, jsonl_data, store>>
    /\ UNCHANGED queryVars

\* main, line 127: jsonl_data = format_as_jsonl(nba_data).
FormatAsJsonl ==
    /\ pc = "format_as_jsonl"
    /\ log' = Append(log, "Formatting data to line-delimited JSON.")
    /\ jsonl_data' = format_as_jsonl(nba_data)
    /\ pc' = "upload_to_s3"
    /\ UNCHANGED <<exc, elapsed, nba_data, calls, rejected, store>>
    /\ UNCHANGED queryVars

UploadKey == "raw-data/nba_player_data.jsonl"

\* A variant of UploadToS3 that waits after the upload.
UploadToS3ThenWait ==
    /\ pc = "upload_to_s3"
    /\ \/ /\ calls' = calls \o <<"s3.put_object", "time.sleep">>
          /\ log' = Append(log, "Uploaded data to S3 under key")
          /\ rejected' = rejected
          /\ store' = Append(store, [key |-> UploadKey, body |-> jsonl_data])
       \/ /\ calls' = calls \o <<"s3.put_object", "time.sleep">>
          /\ log' = Append(log, "Error uploading data to S3")
          /\ rejected' = rejected \cup {"upload_to_s3"}
          /\ store' = store
    /\ elapsed' = elapsed + BucketWait
    /\ pc' = "define_glue_table"
    /\ UNCHANGED <<exc, nba_data, jsonl_data>>
    /\ UNCHANGED queryVars

\* main, line 128: upload_to_s3(jsonl_data, "raw-data/nba_player_data.jsonl").
UploadToS3 ==
    /\ pc = "upload_to_s3"
    /\ calls' = Append(calls, "s3.put_object")
    /\ \/ /\ log' = Append(log, "Uploaded data to S3 under key")
          /\ rejected' = rejected
          /\ store' = Append(store, [key |-> UploadKey, body |-> jsonl_data])
       \/ /\ log' = Append(log, "Error uploading data to S3")
          /\ rejected' = rejected \cup {"upload_to_s3"}
          /\ store' = store
    /\ pc' = "define_glue_table"
    /\ UNCHANGED <<exc, elapsed, nba_data, jsonl_data>>
    /\ UNCHANGED queryVars

\* main, line 129: define_glue_table().
DefineGlueTable ==
    /\ pc = "define_glue_table"
    /\ CatchAndPrint("define_glue_table", "glue.create_table",
                     "Glue table 'nba_players' created successfully.",
                     "Error creating Glue table")
    /\ pc' = "configure_athena_output"
    /\ UNCHANGED <<exc, elapsed, nba_data, jsonl_data, store>>
    /\ UNCHANGED queryVars

\* main, lines 130-131: configure_athena_output(), then the closing print.
ConfigureAthenaOutput ==
    /\ pc = "configure_athena_output"
    /\ calls' = Append(calls, "athena.start_query_execution")
    /\ \/ /\ log' = log \o <<"Athena output location configured successfully.",
                             "NBA data lake setup completed.">>
          /\ rejected' = rejected
       \/ /\ log' = log \o <<"Error configuring Athena output",
                             "NBA data lake setup completed.">>
          /\ rejected' = rejected \cup {"configure_athena_output"}
    /\ pc' = "done"
    /\ UNCHANGED <<exc, elapsed, nba_data, jsonl_data, store>>
    /\ UNCHANGED queryVars

SetupInit ==
    /\ pc = "initialize_s3_bucket"
    /\ exc = NoException
    /\ log = <<>>
    /\ elapsed = 0
    /\ QueryIdle
    /\ SetupIdle

SetupNext ==
    \/ InitializeS3Bucket
    \/ BucketSleep
    \/ SetupGlueDatabase
    \/ RetrieveNbaData
    \/ FormatAsJsonl
    \/ UploadToS3
    \/ DefineGlueTable
    \/ ConfigureAthenaOutput

SetupSpec == SetupInit /\ [][SetupNext]_vars

\* format_as_jsonl called on its own with any bounded sequence of records.
SerializeInit ==
    /\ pc = "call format_as_jsonl"
    /\ exc = NoException
    /\ log = <<>>
    /\ elapsed = 0
    /\ QueryIdle
    /\ nba_data \in RecordSeqs
    /\ jsonl_data = <<>>
    /\ calls = <<>>
    /\ rejected = {}
    /\ store = <<>>

CallFormatAsJsonl ==
    /\ pc = "call format_as_jsonl"
    /\ log' = Append(log, "Formatting data to line-delimited JSON.")
    /\ jsonl_data' = format_as_jsonl(nba_data)
    /\ pc' = "format_as_jsonl returned"
    /\ UNCHANGED <<exc, elapsed, nba_data, calls, rejected, store>>
    /\ UNCHANGED queryVars

SerializeNext == CallFormatAsJsonl

SerializeSpec == SerializeInit /\ [][SerializeNext]_vars

\* ---------------------------------------- claims on the query pipeline

ObservedStates == [i \in 1..Len(observed) |-> observed[i].state]
WaitEnded == query_execution_id # NoHandle /\ pc \notin {"poll", "sleep"}
RunningThenSucceeded(N) ==
    [i \in 1..(N + 1) |-> IF i <= N THEN "RUNNING" ELSE "SUCCEEDED"]

\* C1 (as claimed): once a status lookup has answered a terminal status,
\* SUCCEEDED, FAILED or CANCELLED, the wait is over: the program is neither
\* about to look up the status again nor sleeping before the next lookup.
C1_StopsOnAnyTerminalStatus ==
    (observed # <<>> /\ Last(observed).state \in TerminalStatuses)
        => pc \notin {"poll", "sleep"}

\* C2: when the engine answers RUNNING to the first N lookups and SUCCEEDED to
\* the next, exactly N+1 lookups are issued, the wait is over and the returned
\* URI is the output location followed by the handle and ".csv"; while the
\* answers are all RUNNING nothing has been returned and no failure raised.
C2_ExactlyNPlusOneLookups ==
    /\ \A N \in 0..MaxPolls :
         ObservedStates = RunningThenSucceeded(N)
           => /\ lookups = N + 1
              /\ WaitEnded
              /\ result_s3_path = query_output_location \o query_execution_id \o ".csv"
    /\ (\A i \in 1..Len(observed) : observed[i].state = "RUNNING")
           => /\ result_s3_path = NoPath
              /\ exc.type # "Exception"

C2_Witness ==
    /\ ObservedStates = RunningThenSucceeded(2)
    /\ pc = "visualize"
    /\ lookups = 3

\* C3 (as claimed): when a lookup has answered FAILED or CANCELLED, the wait
\* has ended in a QueryExecutionError that carries that status and the handle.
C3_ErrorCarriesStatusAndHandle ==
    (observed # <<>> /\ Last(observed).state \in {"FAILED", "CANCELLED"})
        => /\ pc = "raised"
           /\ exc.type = "QueryExecutionError"
           /\ Last(observed).state \in Range(exc.args)
           /\ query_execution_id \in Range(exc.args)

\* C4: every path handed to the reader is the artifact of the run's handle and
\* was read after a lookup for that handle answered SUCCEEDED; once a lookup
\* has answered FAILED nothing is ever read.
C4_ReadOnlyAfterSucceeded ==
    /\ \A i \in 1..Len(reads) :
         /\ reads[i] = result_s3_path
         /\ result_s3_path # NoPath
         /\ \E j \in 1..Len(observed) :
              /\ observed[j].state = "SUCCEEDED"
              /\ observed[j].id = query_execution_id
    /\ (\E j \in 1..Len(observed) : observed[j].state = "FAILED") => reads = <<>>

C4_Witness ==
    /\ reads # <<>>
    /\ pc = "done"
    /\ Len(observed) >= 2

\* C5 (as claimed): once the caller's budget has elapsed without a terminal
\* status, the wait fails with QueryTimeoutError instead of polling on: no
\* status lookup is issued after the budget is spent.
C5_TimeoutEndsTheWait ==
    \A i \in 1..Len(observed) :
        observed[i].at > CallerBudget
            => \E j \in 1..(i - 1) : observed[j].state \in TerminalStatuses

\* A step of the waiting program never changes the status the engine holds.
WaitLeavesEngineAlone ==
    (pc \in {"poll", "sleep"} /\ engine' # engine)
        => (pc' = pc /\ lookups' = lookups /\ elapsed' = elapsed /\ exc' = exc)

\* The wait is over only after an answer SUCCEEDED or FAILED, or a lookup that
\* raised; never by a QueryTimeoutError.
WaitEndedByAnswer ==
    WaitEnded =>
        /\ exc.type # "QueryTimeoutError"
        /\ \/ observed # <<>> /\ Last(observed).state \in {"SUCCEEDED", "FAILED"}
           \/ exc = Raised("ClientError", <<"get_query_execution">>)

\* C5 (amended): the wait has no timeout. It ends only when a lookup answers
\* SUCCEEDED or FAILED (or the lookup itself raises), never by a
\* QueryTimeoutError, however long it has slept; and the status the engine
\* holds never changes in a step of the waiting program.
C5_WaitEndsOnlyOnAnswer == []WaitEndedByAnswer /\ [][WaitLeavesEngineAlone]_vars

C5_Witness ==
    /\ pc = "sleep"
    /\ elapsed > CallerBudget
    /\ \A i \in 1..Len(observed) : observed[i].state = "RUNNING"

\* C10: start_query_execution is called at most once in a run; lookups happen
\* only after that one call, and a run whose submission raised has ended with
\* no lookup and no second submission.
C10_SubmittedAtMostOnce ==
    /\ submits <= 1
    /\ lookups > 0 => submits = 1
    /\ (submits = 1 /\ query_execution_id = NoHandle)
         => /\ pc = "raised"
            /\ exc = Raised("ClientError", <<"start_query_execution">>)
            /\ lookups = 0
            /\ observed = <<>>

C10_Witness ==
    /\ submits = 1
    /\ query_execution_id = NoHandle
    /\ pc = "raised"

\* ---------------------------------------- claims on the setup pipeline

Fetched == "requests.get" \in Range(calls)
FetchFailed == "retrieve_nba_data" \in rejected
CatalogStages == {"setup_glue_database", "define_glue_table"}
CatalogRejected == rejected \cap CatalogStages # {}

\* C6 (as claimed): whenever an upload is followed by the query submission,
\* a wait lies strictly between the two.
C6_WaitBetweenUploadAndQuery ==
    \A i, j \in 1..Len(calls) :
        (i < j /\ calls[i] = "s3.put_object" /\ calls[j] = "athena.start_query_execution")
            => \E k \in (i + 1)..(j - 1) : calls[k] = "time.sleep"

\* C6 (amended): the only wait of the setup pipeline directly follows the
\* bucket creation and precedes the database registration; between an upload
\* and the query submission lies exactly one call, glue.create_table, and no
\* wait.
C6_OnlyWaitFollowsBucketCreation ==
    /\ \A k \in 1..Len(calls) :
         calls[k] = "time.sleep"
           => /\ k = 2
              /\ calls[1] = "s3.create_bucket"
              /\ "glue.create_database" \notin {calls[m] : m \in 1..k}
    /\ \A i, j \in 1..Len(calls) :
         (calls[i] = "s3.put_object" /\ calls[j] = "athena.start_query_execution")
           => /\ j = i + 2
              /\ calls[i + 1] = "glue.create_table"
    /\ elapsed \in {0, BucketWait}

C6_Witness ==
    /\ pc = "done"
    /\ "s3.put_object" \in Range(calls)
    /\ "athena.start_query_execution" \in Range(calls)
    /\ elapsed = BucketWait

\* C7 (as claimed): a run in which the catalog rejected the database or the
\* table does not end the way a fully successful run ends: main does not
\* return normally.
C7_RejectionEndsInFailure ==
    (pc = "done" /\ CatalogRejected) => exc # NoException

\* C7 (amended): a rejected database or table creation is only printed: the
\* stage prints its error line instead of its success line, nothing is raised,
\* the later stages are still called, and main ends as a fully successful run
\* does, returning normally after printing the closing line.
C7_RejectionIsOnlyPrinted ==
    /\ exc = NoException
    /\ pc # "raised"
    /\ "glue.create_database" \in Range(calls)
         => /\ "setup_glue_database" \in rejected
                <=> "Error creating Glue database" \in Range(log)
            /\ "setup_glue_database" \notin rejected
                <=> "Glue database created successfully." \in Range(log)
    /\ "glue.create_table" \in Range(calls)
         => /\ "define_glue_table" \in rejected
                <=> "Error creating Glue table" \in Range(log)
            /\ "define_glue_table" \notin rejected
                <=> "Glue table 'nba_players' created successfully." \in Range(log)
    /\ "setup_glue_database" \in rejected => pc # "setup_glue_database"
    /\ pc = "done"
         => /\ Last(log) = "NBA data lake setup completed."
            /\ {"glue.create_database", "requests.get", "glue.create_table",
                "athena.start_query_execution"} \subseteq Range(calls)

C7_Witness ==
    /\ pc = "done"
    /\ "setup_glue_database" \in rejected
    /\ "define_glue_table" \notin rejected
    /\ "Glue table 'nba_players' created successfully." \in Range(log)

\* What retrieve_nba_data hands to main: the returned value and the exception
\* leaving it, if any.
FetchOutcome == [value |-> nba_data, exc |-> exc]
SuccessfulEmptyFetch == [value |-> <<>>, exc |-> NoException]

RECURSIVE SplitOn(_, _)
SplitOn(sep, str) ==
    IF \E i \in 1..Len(str) : str[i] = sep
      THEN LET i == CHOOSE k \in 1..Len(str) :
                        str[k] = sep /\ \A m \in 1..(k - 1) : str[m] # sep
           IN <<SubSeq(str, 1, i - 1)>> \o SplitOn(sep, SubSeq(str, i + 1, Len(str)))
      ELSE <<str>>

\* The lines of a blob: none for the empty blob.
LinesOf(blob) == IF blob = <<>> THEN <<>> ELSE SplitOn("\n", blob)

\* C9: the blob has exactly one line per record, line i being the JSON text of
\* record i; the empty sequence gives the empty blob; and the blob holds a
\* newline only between consecutive records, so one fewer than records.
C9_OneLinePerRecordInOrder ==
    pc = "format_as_jsonl returned"
        => LET lines == LinesOf(jsonl_data)
               newlines == {i \in 1..Len(jsonl_data) : jsonl_data[i] = "\n"}
           IN /\ Len(lines) = Len(nba_data)
              /\ \A i \in 1..Len(lines) :
                   /\ lines[i] = json_dumps(nba_data[i])
                   /\ lines[i] # <<>>
              /\ nba_data = <<>> => jsonl_data = <<>>
              /\ Cardinality(newlines) = IF nba_data = <<>> THEN 0 ELSE Len(nba_data) - 1

C9_Witness ==
    /\ pc = "format_as_jsonl returned"
    /\ Len(nba_data) = 2
    /\ nba_data[1] # nba_data[2]
    /\ nba_data[1].Team = <<"A", "\n">>
    /\ Len(LinesOf(jsonl_data)) = 2

====
